---- MODULE Spec2Model ----
(***************************************************************************)
(* Request-metrics instrumentation of quepid-es-proxy                       *)
(* (src/quepid_es_proxy/metrics.py wired by src/quepid_es_proxy/main.py):   *)
(* the timing middleware RequestMetricsHandler, the scoped timer Benchmark, *)
(* the ElasticSearchMetricsManager (lazy setup, store tasks, retrieve) and  *)
(* the GET /metrics/ read endpoint, run by one cooperative event loop:      *)
(* every action is the code between two awaits of one coroutine.            *)
(***************************************************************************)
EXTENDS Integers, Sequences, FiniteSets, TLC

VARIABLES
    now,                \* the wall clock (time(), datetime.now()) at its last reading, in seconds
    requests,           \* the requests the middleware has received, in arrival order
    tasks,              \* the manager's coroutines: store tasks and retrieve calls
    es,                 \* ElasticSearchMetricsManager.es
    mapping_requested,  \* ElasticSearchMetricsManager.mapping_requested
    docs                \* the documents the backend has persisted, in order

vars == <<now, requests, tasks, es, mapping_requested, docs>>

----------------------------------------------------------------------------
(* Bounds of the model *)

MaxRequests == 2
MaxTime == 1
MaxDocs == 3
MaxOps == 2

----------------------------------------------------------------------------
(* Values *)

None == "None"

RangeOf(s) == {s[i] : i \in 1..Len(s)}

\* f"{route.endpoint.__module__}.{route.name}": the dotted identifier is kept as
\* the pair it is formatted from; the empty string "" is the empty tuple.
Dotted(module, name) == <<module, name>>

EmptyName == <<>>

----------------------------------------------------------------------------
(* The route registry app.router.routes, in registration order *)

\* A path pattern is its sequence of segments; "{}" is a path parameter.
Param == "{}"

Routes ==
    << [kind |-> "Mount", pattern |-> <<"metrics">>, methods |-> {},
        module |-> None, name |-> "metrics"],
       [kind |-> "Route", pattern |-> <<"healthcheck">>, methods |-> {"GET"},
        module |-> "quepid_es_proxy.main", name |-> "root"],
       [kind |-> "Route", pattern |-> <<Param>>, methods |-> {"POST"},
        module |-> "quepid_es_proxy.main", name |-> "search_proxy"],
       [kind |-> "Route", pattern |-> <<Param>>, methods |-> {"GET"},
        module |-> "quepid_es_proxy.main", name |-> "explain_missing_documents"],
       [kind |-> "Route", pattern |-> <<Param, "_doc", Param, "_explain">>,
        methods |-> {"POST"},
        module |-> "quepid_es_proxy.main", name |-> "explain"] >>

measure_routes ==
    { Dotted("quepid_es_proxy.main", "explain_missing_documents"),
      Dotted("quepid_es_proxy.main", "explain"),
      Dotted("quepid_es_proxy.main", "search_proxy") }

\* One segment against one pattern segment: a parameter takes any non-empty
\* segment, a literal only itself.
SegMatches(pat, seg) == IF pat = Param THEN seg # "" ELSE seg = pat

PathMatches(pattern, path) ==
    /\ Len(path) = Len(pattern)
    /\ \A i \in 1..Len(pattern) : SegMatches(pattern[i], path[i])

\* A mount takes every path below its prefix, whatever the method.
MountMatches(pattern, path) ==
    /\ Len(path) > Len(pattern)
    /\ \A i \in 1..Len(pattern) : SegMatches(pattern[i], path[i])

\* r.matches(request.scope)[0]
matches(r, method, path) ==
    IF r.kind = "Mount"
    THEN IF MountMatches(r.pattern, path) THEN "FULL" ELSE "NONE"
    ELSE IF ~PathMatches(r.pattern, path) THEN "NONE"
         ELSE IF method \in r.methods THEN "FULL" ELSE "PARTIAL"

\* The index of the first route that matches in full; 0 is Python's None.
get_matching_route_accepts_partial(method, path) ==
    LET some == {i \in 1..Len(Routes) : matches(Routes[i], method, path) # "NONE"}
    IN  IF some = {} THEN 0 ELSE CHOOSE i \in some : \A j \in some : i <= j

get_matching_route(method, path) ==
    LET full == {i \in 1..Len(Routes) : matches(Routes[i], method, path) = "FULL"}
    IN  IF full = {} THEN 0 ELSE CHOOSE i \in full : \A j \in full : i <= j

\* hasattr(route, "endpoint") and hasattr(route, "name")
HasEndpointAndName_name_only(i) == i # 0

HasEndpointAndName(i) == i # 0 /\ Routes[i].kind = "Route"

get_route_name_from_url(method, path) ==
    LET route == get_matching_route(method, path)
    IN  IF HasEndpointAndName(route)
        THEN Dotted(Routes[route].module, path)
        ELSE EmptyName

get_route_name(method, path) ==
    LET route == get_matching_route(method, path)
    IN  IF HasEndpointAndName(route)
        THEN Dotted(Routes[route].module, Routes[route].name)
        ELSE EmptyName

\* route_name in self.measure_routes
is_route_measurable_by_function_name(route_name) ==
    route_name # EmptyName /\ <<route_name[2]>> \in measure_routes

is_route_measurable_any_named_route(route_name) == route_name # EmptyName

is_route_measurable(route_name) == route_name \in measure_routes

\* Benchmark(name, done=...) or nullcontext()
get_route_handler(method, path) ==
    LET name == get_route_name(method, path)
    IN  IF is_route_measurable(name) THEN "Benchmark" ELSE "nullcontext"

----------------------------------------------------------------------------
(* Benchmark and BenchmarkRecord *)

BenchmarkRecord(name, wall_ms) == [name |-> name, wall_ms |-> wall_ms]

\* Benchmark.take_record at clock value end_time
take_record(name, start_time, end_time) ==
    BenchmarkRecord(name, 1000 * (end_time - start_time))

\* Benchmark.__exit__: the records handed to the done callback, whether or not
\* the wrapped block raised.
BenchmarkExit_skips_on_fault(name, start_time, end_time, raised) ==
    IF raised THEN <<>> ELSE <<take_record(name, start_time, end_time)>>

BenchmarkExit(name, start_time, end_time, raised) ==
    <<take_record(name, start_time, end_time)>>

----------------------------------------------------------------------------
(* ElasticSearchMetricsManager: documents, queries and the backend *)

Supported == {"1h", "8h", "24h"}

\* retrieve's first statement
NormalizeInterval_passes_raw(interval) == interval

NormalizeInterval(interval) ==
    IF interval \notin Supported THEN "24h" ELSE interval

\* The first document create_mapping indexes: {}
EmptyDoc == [f \in {} |-> None]

\* ElasticSearchMetricsManager.mapping
mapping ==
    [properties |-> [timestamp |-> "date", endpoint |-> "keyword", wall_ms |-> "float"]]

\* The document _store indexes
MeasurementDoc(data, timestamp) ==
    [endpoint |-> data.name, wall_ms |-> data.wall_ms, timestamp |-> timestamp]

IsMeasurement(d) == DOMAIN d = {"endpoint", "wall_ms", "timestamp"}

\* The body of retrieve's search: a range filter and a terms aggregation with an
\* average below it.
SearchBody_fixed_window(interval) ==
    [size |-> 0, range_field |-> "timestamp", gte |-> "24h",
     terms_field |-> "endpoint", avg_field |-> "wall_ms"]

SearchBody(interval) ==
    [size |-> 0, range_field |-> "timestamp", gte |-> interval,
     terms_field |-> "endpoint", avg_field |-> "wall_ms"]

\* The awaits a coroutine of the manager makes, as its own log keeps them
ClientAwait == [op |-> "client", body |-> <<>>, doc_type |-> None]

IndexCall(body, doc_type) == [op |-> "index", body |-> body, doc_type |-> doc_type]

SearchCall(body) == [op |-> "search", body |-> body, doc_type |-> None]

\* The backend's date math: now-1h, now-8h, now-24h, in seconds.
WindowSeconds(gte) ==
    CASE gte = "1h" -> 3600
      [] gte = "8h" -> 28800
      [] gte = "24h" -> 86400

RECURSIVE SumOf(_, _)
SumOf(s, f) == IF s = <<>> THEN 0 ELSE s[1][f] + SumOf(Tail(s), f)

RECURSIVE GCD(_, _)
GCD(a, b) == IF b = 0 THEN a ELSE GCD(b, a % b)

\* An exact mean: the fraction sum/count in lowest terms.
Mean(sum, count) ==
    LET g == GCD(sum, count)
    IN  IF g = 0 THEN [num |-> 0, den |-> 1]
        ELSE [num |-> sum \div g, den |-> count \div g]

\* The keys of field f among the hits, each once, in order of first occurrence.
RECURSIVE Keys(_, _)
Keys(hits, f) ==
    IF hits = <<>> THEN <<>>
    ELSE LET rest == Keys(SubSeq(hits, 1, Len(hits) - 1), f)
             k == hits[Len(hits)][f]
         IN  IF k \in RangeOf(rest) THEN rest ELSE Append(rest, k)

\* What the backend answers to a search body over the persisted documents:
\* response["aggregations"]["endpoints"]["buckets"].
Buckets(body, persisted, clock) ==
    LET hits == SelectSeq(persisted,
                    LAMBDA d : /\ body.range_field \in DOMAIN d
                               /\ body.terms_field \in DOMAIN d
                               /\ d[body.range_field] >= clock - WindowSeconds(body.gte))
        keys == Keys(hits, body.terms_field)
        group(k) == SelectSeq(hits, LAMBDA d : d[body.terms_field] = k)
    IN  [i \in 1..Len(keys) |->
            [key |-> keys[i],
             doc_count |-> Len(group(keys[i])),
             average_response_time_ms |->
                 [value |-> Mean(SumOf(group(keys[i]), body.avg_field),
                                 Len(group(keys[i])))]]]

\* The backend rejects a range bound it cannot parse.
SearchParses(body) == body.gte \in Supported

EndpointMetric(endpoint, average_response_time, interval, requests_count) ==
    [endpoint |-> endpoint, average_response_time |-> average_response_time,
     interval |-> interval, requests_count |-> requests_count]

\* retrieve's list comprehension over the buckets
ToMetrics(buckets, interval) ==
    [i \in 1..Len(buckets) |->
        EndpointMetric(buckets[i].key,
                       buckets[i].average_response_time_ms.value,
                       interval,
                       buckets[i].doc_count)]

----------------------------------------------------------------------------
(* The coroutines of the manager *)

NoRecord == <<>>

\* A call of retrieve(interval), before its first await
RetrieveCall(r, interval) ==
    [kind |-> "retrieve", pc |-> "called", req |-> r, data |-> NoRecord,
     raw |-> interval, interval |-> NormalizeInterval(interval),
     calls |-> <<>>, result |-> <<>>]

\* What a coroutine does once setup() has returned: _store indexes its document
\* stamped with the clock at that moment, retrieve sends its search.
AfterSetup_shared_record(task, clock) ==
    IF task.kind = "store"
    THEN LET last == CHOOSE t \in 1..Len(tasks) :
                         /\ tasks[t].kind = "store"
                         /\ \A u \in 1..Len(tasks) : tasks[u].kind = "store" => u <= t
         IN  [pc |-> "idx_doc",
              calls |-> <<IndexCall(MeasurementDoc(tasks[last].data, clock), None)>>]
    ELSE [pc |-> "search", calls |-> <<SearchCall(SearchBody(task.interval))>>]

AfterSetup(task, clock) ==
    IF task.kind = "store"
    THEN [pc |-> "idx_doc",
          calls |-> <<IndexCall(MeasurementDoc(task.data, clock), None)>>]
    ELSE [pc |-> "search", calls |-> <<SearchCall(SearchBody(task.interval))>>]

\* setup() from its second test on: create_mapping's first index call, or return
CheckMapping_always_maps(task, mr, clock) ==
    [pc |-> "idx_empty", calls |-> <<IndexCall(EmptyDoc, None)>>]

CheckMapping_single_flight(task, mr, clock) ==
    IF mr = None /\ \A u \in 1..Len(tasks) : tasks[u].pc \notin {"idx_empty", "idx_mapping"}
    THEN [pc |-> "idx_empty", calls |-> <<IndexCall(EmptyDoc, None)>>]
    ELSE AfterSetup(task, clock)

CheckMapping(task, mr, clock) ==
    IF mr = None
    THEN [pc |-> "idx_empty", calls |-> <<IndexCall(EmptyDoc, None)>>]
    ELSE AfterSetup(task, clock)

\* setup() from its start, up to the first await the coroutine suspends at
setup_skips_when_connecting(task, es_seen, mr, clock) ==
    IF es_seen = None /\ \A u \in 1..Len(tasks) : tasks[u].pc # "client"
    THEN [pc |-> "client", calls |-> <<ClientAwait>>]
    ELSE CheckMapping(task, mr, clock)

setup_waits_for_initialiser(task, es_seen, mr, clock) ==
    IF es_seen = None /\ \E u \in 1..Len(tasks) : tasks[u].pc = "client"
    THEN [pc |-> "waiting", calls |-> <<>>]
    ELSE IF es_seen = None
         THEN [pc |-> "client", calls |-> <<ClientAwait>>]
         ELSE CheckMapping(task, mr, clock)

setup(task, es_seen, mr, clock) ==
    IF es_seen = None
    THEN [pc |-> "client", calls |-> <<ClientAwait>>]
    ELSE CheckMapping(task, mr, clock)

\* The coroutine runs on to its next await.
Resume(task, nxt) == [task EXCEPT !.pc = nxt.pc, !.calls = @ \o nxt.calls]

\* store: create_task(self._store(data)), a task that has not started yet
store_runs_inline(r, data) ==
    LET task == [kind |-> "store", pc |-> "scheduled", req |-> r, data |-> data,
                 raw |-> None, interval |-> None, calls |-> <<>>, result |-> <<>>]
    IN  Resume(task, setup(task, es, mapping_requested, now))

store(r, data) ==
    [kind |-> "store", pc |-> "scheduled", req |-> r, data |-> data,
     raw |-> None, interval |-> None, calls |-> <<>>, result |-> <<>>]

\* The body of the call the coroutine is awaiting
InFlight(task) == task.calls[Len(task.calls)].body

\* The requests an exception of a store task is raised into: store only creates
\* the task and nobody awaits it, so there are none.
StoreFaultReaches_awaited(task) ==
    IF task.kind = "store" THEN {task.req} ELSE {}

StoreFaultReaches(task) == {}

Awaiting == {"client", "idx_empty", "idx_mapping", "idx_doc", "search"}

Finished == {"done", "failed"}

----------------------------------------------------------------------------
(* Initial state: the application as main.py builds it *)

Init ==
    /\ now = 0
    /\ requests = <<>>
    /\ tasks = <<>>
    /\ es = None
    /\ mapping_requested = None
    /\ docs = <<>>

\* The clock is read and shows `clock`: it has moved on since its last reading,
\* or not. An action that does not read it leaves it alone.
ReadClock(clock, reads) ==
    /\ clock >= now
    /\ reads \/ clock = now
    /\ now' = clock

----------------------------------------------------------------------------
(* Actions of the store tasks and retrieve calls *)

\* The event loop starts a scheduled store task (in creation order): _store runs
\* into setup() up to its first await.
RunTask(t, clock) ==
    /\ tasks[t].pc = "scheduled"
    /\ \A u \in 1..(t - 1) : tasks[u].pc # "scheduled"
    /\ LET nxt == setup(tasks[t], es, mapping_requested, clock)
       IN  /\ ReadClock(clock, nxt.pc = "idx_doc")
           /\ tasks' = [tasks EXCEPT ![t] = Resume(@, nxt)]
    /\ UNCHANGED <<requests, es, mapping_requested, docs>>

\* self.es = await self.client
ClientDone(t, clock) ==
    /\ tasks[t].pc = "client"
    /\ es' = "client"
    /\ LET nxt == CheckMapping(tasks[t], mapping_requested, clock)
       IN  /\ ReadClock(clock, nxt.pc = "idx_doc")
           /\ tasks' = [tasks EXCEPT ![t] = Resume(@, nxt)]
    /\ UNCHANGED <<requests, mapping_requested, docs>>

\* create_mapping: await self.es.index(self.index, {}) returns, the mapping
\* request is sent
IndexEmptyDone(t) ==
    /\ tasks[t].pc = "idx_empty"
    /\ docs' = Append(docs, InFlight(tasks[t]))
    /\ tasks' = [tasks EXCEPT
                   ![t] = Resume(@, [pc |-> "idx_mapping",
                                     calls |-> <<IndexCall(mapping, "_mapping")>>])]
    /\ UNCHANGED <<now, requests, es, mapping_requested>>

\* self.mapping_requested = await self.create_mapping(); setup() returns
MappingDone_stamps_before_await(t, clock) ==
    /\ tasks[t].pc = "idx_mapping"
    /\ mapping_requested' = "acknowledged"
    /\ LET nxt == AfterSetup(tasks[t], now)
       IN  /\ ReadClock(clock, nxt.pc = "idx_doc")
           /\ tasks' = [tasks EXCEPT ![t] = Resume(@, nxt)]
    /\ UNCHANGED <<requests, es, docs>>

MappingDone(t, clock) ==
    /\ tasks[t].pc = "idx_mapping"
    /\ mapping_requested' = "acknowledged"
    /\ LET nxt == AfterSetup(tasks[t], clock)
       IN  /\ ReadClock(clock, nxt.pc = "idx_doc")
           /\ tasks' = [tasks EXCEPT ![t] = Resume(@, nxt)]
    /\ UNCHANGED <<requests, es, docs>>

\* _store: the measurement document is written, the task ends
IndexDocDone(t) ==
    /\ tasks[t].pc = "idx_doc"
    /\ docs' = Append(docs, InFlight(tasks[t]))
    /\ tasks' = [tasks EXCEPT ![t].pc = "done"]
    /\ UNCHANGED <<now, requests, es, mapping_requested>>

\* retrieve: the backend answers the search as of its own clock, and the
\* buckets become EndpointMetrics; a search it cannot parse raises.
SearchDone(t, clock) ==
    /\ tasks[t].pc = "search"
    /\ ReadClock(clock, TRUE)
    /\ LET task == tasks[t]
           body == InFlight(task)
       IN  tasks' = [tasks EXCEPT
                       ![t] = IF SearchParses(body)
                              THEN [task EXCEPT
                                      !.pc = "done",
                                      !.result = ToMetrics(Buckets(body, docs, clock),
                                                           task.interval)]
                              ELSE [task EXCEPT !.pc = "failed"]]
    /\ UNCHANGED <<requests, es, mapping_requested, docs>>

\* An await raises: the connection cannot be had, or the backend rejects the
\* call. The exception ends the coroutine; for a store task it stays in the
\* Task object.
AwaitRaises_latches(t) ==
    /\ tasks[t].pc \in Awaiting
    /\ tasks' = [tasks EXCEPT ![t].pc = "failed"]
    /\ mapping_requested' = IF tasks[t].pc \in {"idx_empty", "idx_mapping"}
                            THEN "failed"
                            ELSE mapping_requested
    /\ UNCHANGED <<now, requests, es, docs>>

AwaitRaises(t) ==
    /\ tasks[t].pc \in Awaiting
    /\ tasks' = [tasks EXCEPT ![t].pc = "failed"]
    /\ requests' = [r \in 1..Len(requests) |->
                      IF r \in StoreFaultReaches(tasks[t])
                      THEN [requests[r] EXCEPT !.outcome = "fault"]
                      ELSE requests[r]]
    /\ UNCHANGED <<now, es, mapping_requested, docs>>

----------------------------------------------------------------------------
(* The middleware RequestMetricsHandler and the read endpoint *)

Absent == "absent"

\* The requests the model sends: a measured route, an unmeasured route, a path
\* no route matches, and the read endpoint.
RequestInputs ==
    { [method |-> "POST", path |-> <<"idx1">>, query |-> Absent],
      [method |-> "GET", path |-> <<"healthcheck">>, query |-> Absent],
      [method |-> "GET", path |-> <<"idx1", "extra">>, query |-> Absent],
      [method |-> "GET", path |-> <<"metrics", "">>, query |-> Absent] }

\* The request is routed to get_metrics: the mount takes it and it is GET "/"
\* of the mounted application (add_metrics_app).
IsMetricsEndpoint(req) ==
    LET i == get_matching_route(req.method, req.path)
    IN  /\ i # 0
        /\ Routes[i].kind = "Mount"
        /\ req.method = "GET"
        /\ SubSeq(req.path, Len(Routes[i].pattern) + 1, Len(req.path)) = <<"">>

\* Only a route's handler can raise: an unmatched request is answered 404.
CanRaise(req) == HasEndpointAndName(get_matching_route(req.method, req.path))

\* get_metrics(interval: str = "24h"): the argument it hands to retrieve
get_metrics_normalizes(query) == IF query \in Supported THEN query ELSE "24h"

get_metrics(query) == IF query = Absent THEN "24h" ELSE query

\* __call__ up to its await: the route handler is chosen, Benchmark.__enter__
\* reads the clock, call_next is awaited.
Receive(i, clock) ==
    /\ Len(requests) < MaxRequests
    /\ LET ctx == get_route_handler(i.method, i.path)
       IN  /\ ReadClock(clock, ctx = "Benchmark")
           /\ requests' = Append(requests,
                 [method |-> i.method, path |-> i.path, query |-> i.query,
                  name |-> get_route_name(i.method, i.path),
                  ctx |-> ctx,
                  start_time |-> IF ctx = "Benchmark" THEN clock ELSE 0,
                  pc |-> "call_next", op |-> 0,
                  downstream |-> None, outcome |-> None, body |-> None,
                  stores |-> 0])
    /\ UNCHANGED <<tasks, es, mapping_requested, docs>>

\* call_next resumes with a response or an exception: the with block is left,
\* Benchmark.__exit__ hands its record to request_measured = manager.store, and
\* __call__ returns the response, or the exception leaves it.
Exit_drops_when_pending(r, raised, body, clock) ==
    LET req == requests[r]
        busy == \E t \in 1..Len(tasks) :
                    tasks[t].kind = "store" /\ tasks[t].pc \notin Finished
        recs == IF req.ctx = "Benchmark" /\ ~busy
                THEN BenchmarkExit(req.name, req.start_time, clock, raised)
                ELSE <<>>
        what == IF raised THEN "fault" ELSE "ok"
    IN  /\ ReadClock(clock, req.ctx = "Benchmark")
        /\ requests' = [requests EXCEPT
                          ![r].pc = IF raised THEN "raised" ELSE "returned",
                          ![r].downstream = what,
                          ![r].outcome = what,
                          ![r].body = body,
                          ![r].stores = @ + Len(recs)]
        /\ tasks' = tasks \o [k \in 1..Len(recs) |-> store(r, recs[k])]

Exit(r, raised, body, clock) ==
    LET req == requests[r]
        recs == IF req.ctx = "Benchmark"
                THEN BenchmarkExit(req.name, req.start_time, clock, raised)
                ELSE <<>>
        what == IF raised THEN "fault" ELSE "ok"
    IN  /\ ReadClock(clock, req.ctx = "Benchmark")
        /\ requests' = [requests EXCEPT
                          ![r].pc = IF raised THEN "raised" ELSE "returned",
                          ![r].downstream = what,
                          ![r].outcome = what,
                          ![r].body = body,
                          ![r].stores = @ + Len(recs)]
        /\ tasks' = tasks \o [k \in 1..Len(recs) |-> store(r, recs[k])]

\* The downstream handler of a request other than the read endpoint ends.
Downstream(r, raised, clock) ==
    /\ requests[r].pc = "call_next"
    /\ ~IsMetricsEndpoint(requests[r])
    /\ raised => CanRaise(requests[r])
    /\ Exit(r, raised, IF raised THEN None ELSE "response", clock)
    /\ UNCHANGED <<es, mapping_requested, docs>>

\* get_metrics is entered: return await manager.retrieve(interval); retrieve
\* runs up to its first await.
GetMetrics(r) ==
    /\ requests[r].pc = "call_next"
    /\ IsMetricsEndpoint(requests[r])
    /\ requests[r].op = 0
    /\ LET t == Len(tasks) + 1
           task == RetrieveCall(r, get_metrics(requests[r].query))
           nxt == setup(task, es, mapping_requested, now)
       IN  /\ tasks' = Append(tasks, Resume(task, nxt))
           /\ requests' = [requests EXCEPT ![r].op = t]
    /\ UNCHANGED <<now, es, mapping_requested, docs>>

\* get_metrics ends with retrieve's list or with its exception.
MetricsReturns_swallows(r, clock) ==
    /\ requests[r].pc = "call_next"
    /\ requests[r].op # 0
    /\ tasks[requests[r].op].pc \in Finished
    /\ Exit(r, FALSE, tasks[requests[r].op].result, clock)
    /\ UNCHANGED <<es, mapping_requested, docs>>

MetricsReturns(r, clock) ==
    /\ requests[r].pc = "call_next"
    /\ requests[r].op # 0
    /\ tasks[requests[r].op].pc \in Finished
    /\ Exit(r, tasks[requests[r].op].pc = "failed",
            IF tasks[requests[r].op].pc = "failed" THEN None
            ELSE tasks[requests[r].op].result,
            clock)
    /\ UNCHANGED <<es, mapping_requested, docs>>

Clocks == now..MaxTime

Next ==
    \/ \E i \in RequestInputs, clock \in Clocks : Receive(i, clock)
    \/ \E r \in 1..Len(requests), raised \in BOOLEAN, clock \in Clocks :
          Downstream(r, raised, clock)
    \/ \E r \in 1..Len(requests) : GetMetrics(r)
    \/ \E r \in 1..Len(requests), clock \in Clocks : MetricsReturns(r, clock)
    \/ \E t \in 1..Len(tasks), clock \in Clocks : RunTask(t, clock)
    \/ \E t \in 1..Len(tasks), clock \in Clocks : ClientDone(t, clock)
    \/ \E t \in 1..Len(tasks) : IndexEmptyDone(t)
    \/ \E t \in 1..Len(tasks), clock \in Clocks : MappingDone(t, clock)
    \/ \E t \in 1..Len(tasks) : IndexDocDone(t)
    \/ \E t \in 1..Len(tasks), clock \in Clocks : SearchDone(t, clock)
    \/ \E t \in 1..Len(tasks) : AwaitRaises(t)

Spec == Init /\ [][Next]_vars

----------------------------------------------------------------------------
(* Route resolution alone: requests over every instance of the registered    *)
(* patterns, received by the middleware and left waiting on call_next.       *)

\* Values for a path parameter and for the rest of a mounted path; one of them
\* is also the literal of a registered route.
SegmentValues == {"idx1", "idx2", "healthcheck", ""}

RECURSIVE Instances(_)
Instances(pattern) ==
    IF pattern = <<>> THEN {<<>>}
    ELSE LET heads == IF pattern[1] = Param THEN SegmentValues ELSE {pattern[1]}
         IN  {<<h>> \o rest : h \in heads, rest \in Instances(Tail(pattern))}

RoutePaths ==
    UNION {Instances(IF Routes[i].kind = "Mount"
                     THEN Append(Routes[i].pattern, Param)
                     ELSE Routes[i].pattern) : i \in 1..Len(Routes)}

RouteInputs ==
    {[method |-> m, path |-> p, query |-> Absent] : m \in {"GET", "POST"}, p \in RoutePaths}

NextRoute == \E i \in RouteInputs : Receive(i, now)

SpecRoute == Init /\ [][NextRoute]_vars

----------------------------------------------------------------------------
(* retrieve alone: an initialised manager over a backend that already holds  *)
(* measurement documents of several ages, and one read of it.                *)

\* The instant of the read, late enough for documents older than every window
Epoch == 25 * 3600

\* Ages of the persisted documents: on the edge of the 1h window, just past it,
\* past the 8h window, past the 24h window
Ages == {3600, 3601, 28801, 86401}

RecordSamples ==
    {BenchmarkRecord("A", 10), BenchmarkRecord("A", 20), BenchmarkRecord("B", 5)}

DocSamples == {MeasurementDoc(d, Epoch - a) : d \in RecordSamples, a \in Ages}

RECURSIVE SeqsUpTo(_, _)
SeqsUpTo(S, n) ==
    IF n = 0 THEN {<<>>}
    ELSE LET shorter == SeqsUpTo(S, n - 1)
         IN  shorter \cup {Append(q, x) : q \in {z \in shorter : Len(z) = n - 1}, x \in S}

\* The backend appends: documents lie in the order of their timestamps.
InWriteOrder(q) == \A i \in 1..(Len(q) - 1) : q[i].timestamp <= q[i + 1].timestamp

InitRetrieve ==
    /\ now = Epoch
    /\ requests = <<>>
    /\ tasks = <<>>
    /\ es = "client"
    /\ mapping_requested = "acknowledged"
    /\ docs \in {q \in SeqsUpTo(DocSamples, MaxDocs) : InWriteOrder(q)}

\* The query strings sent to the read endpoint, and the arguments of a direct
\* call of retrieve (None: no argument).
MetricsInputs ==
    {[method |-> "GET", path |-> <<"metrics", "">>, query |-> q] :
        q \in {Absent, "1h", "8h", "error"}}

RetrieveArguments == {None, "1h", "24h", "error"}

\* await manager.retrieve(...) by a caller other than the read endpoint
DirectRetrieve(interval) ==
    /\ LET task == RetrieveCall(0, interval)
       IN  tasks' = Append(tasks, Resume(task, setup(task, es, mapping_requested, now)))
    /\ UNCHANGED <<now, requests, es, mapping_requested, docs>>

NextRetrieve ==
    \/ \E i \in MetricsInputs : requests = <<>> /\ tasks = <<>> /\ Receive(i, now)
    \/ \E r \in 1..Len(requests) : GetMetrics(r)
    \/ \E r \in 1..Len(requests) : MetricsReturns(r, now)
    \/ \E a \in RetrieveArguments : requests = <<>> /\ tasks = <<>> /\ DirectRetrieve(a)
    \/ \E t \in 1..Len(tasks) : SearchDone(t, now)

SpecRetrieve == InitRetrieve /\ [][NextRetrieve]_vars

----------------------------------------------------------------------------
(* The manager alone: store and retrieve called on a freshly constructed     *)
(* ElasticSearchMetricsManager, as the unit tests call them, over a backend  *)
(* that may answer, raise, or answer the mapping request with None.          *)

StoreArguments == {BenchmarkRecord("A", 10), BenchmarkRecord("B", 5)}

\* manager.store(record) by a caller other than the middleware
DirectStore(data) ==
    /\ tasks' = Append(tasks, store(0, data))
    /\ UNCHANGED <<now, requests, es, mapping_requested, docs>>

\* self.mapping_requested = await self.create_mapping() when the second index
\* call returns None: the attribute is assigned None and setup() returns.
MappingAnswersNone(t, clock) ==
    /\ tasks[t].pc = "idx_mapping"
    /\ mapping_requested' = None
    /\ LET nxt == AfterSetup(tasks[t], clock)
       IN  /\ ReadClock(clock, nxt.pc = "idx_doc")
           /\ tasks' = [tasks EXCEPT ![t] = Resume(@, nxt)]
    /\ UNCHANGED <<requests, es, docs>>

\* A step of one of the manager's coroutines that the backend answers
TaskStep ==
    \/ \E t \in 1..Len(tasks), clock \in Clocks : RunTask(t, clock)
    \/ \E t \in 1..Len(tasks), clock \in Clocks : ClientDone(t, clock)
    \/ \E t \in 1..Len(tasks) : IndexEmptyDone(t)
    \/ \E t \in 1..Len(tasks), clock \in Clocks : MappingDone(t, clock)
    \/ \E t \in 1..Len(tasks) : IndexDocDone(t)
    \/ \E t \in 1..Len(tasks), clock \in Clocks : SearchDone(t, clock)

\* A step in which the backend raises or answers the mapping request with None
TaskFault ==
    \/ \E t \in 1..Len(tasks), clock \in Clocks : MappingAnswersNone(t, clock)
    \/ \E t \in 1..Len(tasks) : AwaitRaises(t)

\* Operations that overlap: a caller may call the manager at any moment.
NextManager ==
    \/ \E d \in StoreArguments : Len(tasks) < MaxOps /\ DirectStore(d)
    \/ Len(tasks) < MaxOps /\ DirectRetrieve(None)
    \/ TaskStep
    \/ TaskFault

SpecManager == Init /\ [][NextManager]_vars

\* Every operation called so far has ended.
Idle == \A t \in 1..Len(tasks) : tasks[t].pc \in Finished

\* Operations that do not overlap: each is awaited before the next is called
\* (await manager.store(record), await manager.retrieve()).
NextSequential ==
    \/ \E d \in StoreArguments : Len(tasks) < MaxOps /\ Idle /\ DirectStore(d)
    \/ Len(tasks) < MaxOps /\ Idle /\ DirectRetrieve(None)
    \/ TaskStep
    \/ TaskFault

SpecSequential == Init /\ [][NextSequential]_vars

\* A backend that answers every call, and an event loop that runs every task
\* that is ready.
NextLive ==
    \/ \E d \in StoreArguments : Len(tasks) < MaxOps /\ DirectStore(d)
    \/ Len(tasks) < MaxOps /\ DirectRetrieve(None)
    \/ TaskStep

SpecLive == Init /\ [][NextLive]_vars /\ WF_vars(TaskStep)

----------------------------------------------------------------------------
(* Properties of the middleware and of the store tasks, under Spec *)

Requests == 1..Len(requests)

Tasks == 1..Len(tasks)

Measured(r) == requests[r].name \in measure_routes

Done(r) == requests[r].pc \in {"returned", "raised"}

\* The store tasks request r has had scheduled
StoresOf(r) == {t \in Tasks : tasks[t].kind = "store" /\ tasks[t].req = r}

\* C1: a request whose resolved route identifier is in the measured-route set has
\* the store operation invoked exactly once: not before its downstream handler
\* has ended, once when it has, whatever the other requests are doing.
C1_StoreOncePerMeasuredRequest ==
    \A r \in Requests :
        Measured(r) =>
            /\ requests[r].stores = Cardinality(StoresOf(r))
            /\ requests[r].stores = IF Done(r) THEN 1 ELSE 0

\* Two measured requests overlap: the later one has ended and been stored while
\* the earlier one still waits for its handler.
C1_Witness ==
    /\ Len(requests) = 2
    /\ Measured(1) /\ Measured(2)
    /\ requests[1].pc = "call_next"
    /\ Done(2) /\ requests[2].stores = 1

\* C2: a request whose resolved route identifier is not in the measured-route set
\* (the empty identifier of an unmatched request included) never has the store
\* operation invoked.
C2_NoStoreForUnmeasuredRequest ==
    \A r \in Requests :
        ~Measured(r) => requests[r].stores = 0 /\ StoresOf(r) = {}

\* An unmatched request and a request to an unmeasured route have both ended.
C2_Witness ==
    /\ Len(requests) = 2
    /\ Done(1) /\ Done(2)
    /\ get_matching_route(requests[1].method, requests[1].path) = 0
    /\ requests[1].name = EmptyName
    /\ requests[2].name = Dotted("quepid_es_proxy.main", "root")

\* C3: when the downstream handler of a measured request raises, the store
\* operation is still invoked exactly once and the fault leaves the middleware.
C3_FaultStillStoredAndRaised ==
    \A r \in Requests :
        (Measured(r) /\ requests[r].downstream = "fault") =>
            /\ requests[r].stores = 1
            /\ Cardinality(StoresOf(r)) = 1
            /\ requests[r].pc = "raised"
            /\ requests[r].outcome = "fault"

\* A measured request has raised and its measurement has been written.
C3_Witness ==
    \E r \in Requests :
        /\ Measured(r) /\ requests[r].pc = "raised"
        /\ \E t \in StoresOf(r) : tasks[t].pc = "done"

\* C4: a failure inside a store task never reaches a request: every request ends
\* the way its downstream handler did, with the handler's response.
C4_StoreFailureStaysInTask ==
    \A r \in Requests :
        /\ requests[r].outcome = requests[r].downstream
        /\ Done(r) =>
              /\ (requests[r].pc = "returned") = (requests[r].downstream = "ok")
              /\ (requests[r].downstream = "ok" /\ requests[r].op = 0)
                    => requests[r].body = "response"

\* A store task failed at its write, after its own setup, and both its request
\* and a request that ended after the failure were answered.
C4_Witness ==
    /\ Len(requests) = 2
    /\ \E t \in StoresOf(1) : tasks[t].pc = "failed" /\ Len(tasks[t].calls) = 4
    /\ requests[1].pc = "returned" /\ requests[1].body = "response"
    /\ requests[2].pc = "returned" /\ requests[2].body = "response"
    /\ \E t \in StoresOf(2) : tasks[t].pc = "failed" /\ Len(tasks[t].calls) = 1

\* C5: the step in which the downstream handler of a measured request ends is the
\* step in which the middleware returns (or raises), and it leaves the write
\* merely scheduled: nothing of the store task, its setup included, has run.
C5_ResponseDoesNotWaitForStore ==
    [][\A r \in Requests :
          (requests[r].pc = "call_next" /\ requests'[r].pc # "call_next"
              /\ Measured(r)) =>
             /\ requests'[r].pc \in {"returned", "raised"}
             /\ \E t \in 1..Len(tasks') :
                   /\ tasks'[t].kind = "store" /\ tasks'[t].req = r
                   /\ tasks'[t].pc = "scheduled"
                   /\ tasks'[t].calls = <<>>]_vars

\* A response has been returned while its write still waits for the connection.
C5_Witness ==
    \E r \in Requests :
        /\ requests[r].pc = "returned"
        /\ \E t \in StoresOf(r) : tasks[t].pc = "client"

\* How many measurement documents, resp. ended store tasks, carry record d
DocsCarrying(d) ==
    Cardinality({i \in 1..Len(docs) :
        /\ IsMeasurement(docs[i])
        /\ docs[i].endpoint = d.name /\ docs[i].wall_ms = d.wall_ms})

WrittenCarrying(d) ==
    Cardinality({t \in Tasks :
        tasks[t].kind = "store" /\ tasks[t].pc = "done" /\ tasks[t].data = d})

StoreTasks == {t \in Tasks : tasks[t].kind = "store"}

\* C6: every store task that has ended without failure has one measurement
\* document of its own, carrying its record's endpoint and wall_ms; so when all
\* scheduled store tasks have ended without failure there are as many measurement
\* documents as store invocations, none lost, doubled or merged.
C6_OneDocumentPerStore ==
    /\ \A t \in StoreTasks : DocsCarrying(tasks[t].data) = WrittenCarrying(tasks[t].data)
    /\ \A i \in 1..Len(docs) :
          IsMeasurement(docs[i]) =>
              \E t \in StoreTasks :
                  /\ tasks[t].pc = "done"
                  /\ docs[i].endpoint = tasks[t].data.name
                  /\ docs[i].wall_ms = tasks[t].data.wall_ms
    /\ (\A t \in StoreTasks : tasks[t].pc = "done") =>
          Len(SelectSeq(docs, IsMeasurement)) = Cardinality(StoreTasks)

\* Two store tasks with different records raced on the first-use setup (each
\* awaited the connection and created the mapping itself) and both have written.
C6_Witness ==
    /\ Len(tasks) = 2
    /\ \A t \in Tasks :
          tasks[t].kind = "store" /\ tasks[t].pc = "done" /\ Len(tasks[t].calls) = 4
    /\ tasks[1].data # tasks[2].data
    /\ Len(SelectSeq(docs, IsMeasurement)) = 2

----------------------------------------------------------------------------
(* Properties of route resolution, under SpecRoute *)

\* Both requests are instances of the pattern of route i, with the same method.
SameRouteOtherValues(a, b, i) ==
    /\ a.method = b.method
    /\ matches(Routes[i], a.method, a.path) = "FULL"
    /\ matches(Routes[i], b.method, b.path) = "FULL"

\* No route registered before route i matches the request in full.
NotTakenEarlier(a, i) ==
    \A j \in 1..(i - 1) : matches(Routes[j], a.method, a.path) # "FULL"

\* C7 as stated: two requests with the same method that differ only in the value
\* of a path variable of one registered route resolve to the same identifier and
\* get the same measure / do-not-measure decision.
C7_AsStated ==
    \A a \in Requests, b \in Requests, i \in 1..Len(Routes) :
        SameRouteOtherValues(requests[a], requests[b], i) =>
            /\ requests[a].name = requests[b].name
            /\ requests[a].ctx = requests[b].ctx

\* C7 as amended: the same, for values that no earlier registered route matches
\* in full (registration order decides otherwise: GET /healthcheck is an instance
\* of /{index_name} and resolves to the health check).
C7_ParameterAgnosticResolution ==
    \A a \in Requests, b \in Requests, i \in 1..Len(Routes) :
        (/\ SameRouteOtherValues(requests[a], requests[b], i)
         /\ NotTakenEarlier(requests[a], i)
         /\ NotTakenEarlier(requests[b], i)) =>
            /\ requests[a].name = requests[b].name
            /\ requests[a].ctx = requests[b].ctx

\* POST /idx1 and POST /idx2 have both resolved to search_proxy and are measured.
C7_Witness ==
    /\ Len(requests) = 2
    /\ requests[1].method = "POST" /\ requests[1].path = <<"idx1">>
    /\ requests[2].method = "POST" /\ requests[2].path = <<"idx2">>
    /\ requests[1].name = Dotted("quepid_es_proxy.main", "search_proxy")
    /\ requests[2].name = requests[1].name
    /\ requests[1].ctx = "Benchmark" /\ requests[2].ctx = "Benchmark"

----------------------------------------------------------------------------
(* Properties of retrieve and of the read endpoint, under SpecRetrieve *)

RetrieveTasks == {t \in Tasks : tasks[t].kind = "retrieve"}

\* The window the claim gives an interval argument
Normalised(raw) == IF raw \in {"1h", "8h", "24h"} THEN raw ELSE "24h"

\* C8: retrieve uses 1h, 8h and 24h unchanged and takes no argument or any other
\* value for 24h: it then sends the query of retrieve("24h") and returns its
\* result, every EndpointMetric carries the normalised interval, and the invalid
\* input raises nothing.
C8_RetrieveNormalisesInterval ==
    \A t \in RetrieveTasks :
        LET task == tasks[t]
            n == Normalised(task.raw)
        IN  /\ task.interval = n
            /\ task.pc # "failed"
            /\ task.pc \in {"search", "done"} =>
                  /\ InFlight(task).gte = n
                  /\ (task.raw \notin {"1h", "8h", "24h"}) =>
                        InFlight(task) = SearchBody("24h")
            /\ task.pc = "done" =>
                  /\ \A k \in 1..Len(task.result) : task.result[k].interval = n
                  /\ (task.raw \notin {"1h", "8h", "24h"}) =>
                        task.result = ToMetrics(Buckets(SearchBody("24h"), docs, now), "24h")

\* retrieve() without argument has returned metrics labelled 24h, over a backend
\* that also holds a document older than 24 hours.
C8_Witness ==
    \E t \in RetrieveTasks :
        /\ tasks[t].raw = None /\ tasks[t].pc = "done"
        /\ Len(tasks[t].result) = 2
        /\ \A k \in 1..Len(tasks[t].result) : tasks[t].result[k].interval = "24h"
        /\ \E i \in 1..Len(docs) : docs[i].timestamp < now - 86400

\* The calls of retrieve made for request r
RetrievesOf(r) == {t \in RetrieveTasks : tasks[t].req = r}

\* C9: GET /metrics/ calls retrieve exactly once and hands it the interval
\* unmodified: "24h" without query parameter, the raw value otherwise (also an
\* unsupported one, which retrieve then takes for 24h), and answers with
\* retrieve's result.
C9_EndpointPassesIntervalThrough ==
    \A r \in Requests :
        IsMetricsEndpoint(requests[r]) =>
            /\ RetrievesOf(r) = IF requests[r].op = 0 THEN {} ELSE {requests[r].op}
            /\ Done(r) => Cardinality(RetrievesOf(r)) = 1
            /\ \A t \in RetrievesOf(r) :
                  /\ requests[r].query = Absent => tasks[t].raw = "24h"
                  /\ requests[r].query # Absent => tasks[t].raw = requests[r].query
                  /\ requests[r].query = "error" => tasks[t].interval = "24h"
            /\ requests[r].pc = "returned" =>
                  requests[r].body = tasks[requests[r].op].result

\* GET /metrics/?interval=error has been answered with metrics labelled 24h.
C9_Witness ==
    \E r \in Requests :
        /\ requests[r].query = "error" /\ requests[r].pc = "returned"
        /\ tasks[requests[r].op].raw = "error"
        /\ requests[r].body # <<>>
        /\ \A k \in 1..Len(requests[r].body) : requests[r].body[k].interval = "24h"

\* The measurement documents inside the trailing window of an interval
InWindow(interval) ==
    LET seconds == CASE interval = "1h" -> 60 * 60
                     [] interval = "8h" -> 8 * 60 * 60
                     [] interval = "24h" -> 24 * 60 * 60
    IN  {i \in 1..Len(docs) :
            IsMeasurement(docs[i]) /\ docs[i].timestamp >= now - seconds}

RECURSIVE WallSum(_)
WallSum(S) ==
    IF S = {} THEN 0
    ELSE LET i == CHOOSE x \in S : TRUE IN docs[i].wall_ms + WallSum(S \ {i})

----------------------------------------------------------------------------
(* Failures of the read path, under Spec *)

\* The step fails retrieve call t.
RetrieveFails(t) ==
    /\ tasks[t].kind = "retrieve"
    /\ tasks[t].pc # "failed"
    /\ tasks'[t].pc = "failed"

\* C11: a failure inside retrieve (in its setup or in its query) is raised to the
\* request that made that read and to no other: the read's request ends raised
\* exactly when its retrieve failed, any other request ends raised only by its
\* own handler, the failing step touches no other task, request or attribute of
\* the manager, and measured requests go on having their store scheduled.
C11_RetrieveFailureStaysWithItsCaller ==
    /\ [](\A r \in Requests :
            /\ (requests[r].op # 0 /\ Done(r)) =>
                  ((requests[r].pc = "raised") <=> (tasks[requests[r].op].pc = "failed"))
            /\ (requests[r].op = 0 /\ requests[r].pc = "raised") =>
                  (CanRaise(requests[r]) /\ requests[r].downstream = "fault")
            /\ (Measured(r) /\ Done(r)) => StoresOf(r) # {})
    /\ [][\A t \in Tasks :
            RetrieveFails(t) =>
               /\ requests' = requests
               /\ es' = es
               /\ mapping_requested' = mapping_requested
               /\ docs' = docs
               /\ Len(tasks') = Len(tasks)
               /\ \A u \in Tasks \ {t} : tasks'[u] = tasks[u]]_vars

\* The read's retrieve failed while waiting for the connection and its request
\* ended raised; a measured request that came after it was answered, and its
\* store task ran its own setup and wrote its document.
C11_Witness ==
    /\ Len(requests) = 2
    /\ IsMetricsEndpoint(requests[1]) /\ requests[1].pc = "raised"
    /\ tasks[requests[1].op].pc = "failed"
    /\ Measured(2) /\ requests[2].pc = "returned" /\ requests[2].body = "response"
    /\ \E t \in StoresOf(2) :
          /\ t > requests[1].op
          /\ tasks[t].pc = "done"
          /\ \E i \in 1..Len(docs) : docs[i] = InFlight(tasks[t])

----------------------------------------------------------------------------
(* Properties of the manager's first-use setup, under SpecSequential,        *)
(* SpecManager and SpecLive                                                  *)

\* The awaits of setup() and create_mapping()
IsSetupCall(c) ==
    \/ c = ClientAwait
    \/ c = IndexCall(EmptyDoc, None)
    \/ c = IndexCall(mapping, "_mapping")

\* The awaits task t makes in this step
NewCalls(t) ==
    LET before == IF t <= Len(tasks) THEN Len(tasks[t].calls) ELSE 0
    IN  {tasks'[t].calls[k] : k \in (before + 1)..Len(tasks'[t].calls)}

\* The manager has the connection and an answer to its mapping request.
Initialised == es # None /\ mapping_requested # None

\* C12: setup is lazy and idempotent over operations that do not overlap:
\* construction, and store() before its task runs, acquire nothing and request
\* nothing; the first operation that runs awaits the client and then issues the
\* two calls of create_mapping; and once es and mapping_requested are set they
\* keep their values and no later step awaits the client or calls create_mapping.
C12_SetupLazyAndIdempotent ==
    /\ []((\A t \in Tasks : tasks[t].pc = "scheduled") =>
             (es = None /\ mapping_requested = None /\ docs = <<>>))
    /\ []((tasks # <<>> /\ tasks[1].pc # "scheduled") =>
             LET calls == tasks[1].calls
             IN  /\ calls[1] = ClientAwait
                 /\ Len(calls) >= 2 => calls[2] = IndexCall(EmptyDoc, None)
                 /\ Len(calls) >= 3 => calls[3] = IndexCall(mapping, "_mapping"))
    /\ [][Initialised =>
             /\ es' = es
             /\ mapping_requested' = mapping_requested
             /\ \A t \in 1..Len(tasks') : \A c \in NewCalls(t) : ~IsSetupCall(c)]_vars

\* A store set the manager up, and the retrieve awaited after it went straight
\* to its search: one await of the client and one create_mapping in all.
C12_Witness ==
    /\ Len(tasks) = 2
    /\ tasks[1].kind = "store" /\ tasks[1].pc = "done" /\ Len(tasks[1].calls) = 4
    /\ tasks[2].kind = "retrieve" /\ tasks[2].pc = "done" /\ Len(tasks[2].calls) = 1
    /\ Initialised
    /\ Len(SelectSeq(docs, LAMBDA d : d = EmptyDoc)) = 1

\* Task t begins to run in this step: a scheduled store task is started, or
\* retrieve is called.
Starts(t) ==
    /\ t <= Len(tasks')
    /\ tasks'[t].pc # "scheduled"
    /\ t <= Len(tasks) => tasks[t].pc = "scheduled"

\* Task t is handed the connection in this step.
Connects(t) ==
    /\ t <= Len(tasks)
    /\ tasks[t].pc = "client"
    /\ tasks'[t].pc \notin {"client", "failed"}

\* The tasks that are inside setup(): awaiting the client or in create_mapping
Initialising == {t \in Tasks : tasks[t].pc \in {"client", "idx_empty", "idx_mapping"}}

\* C13: nothing guards the first-use setup against concurrency: an operation
\* that starts while es is None awaits the client itself, and one that is handed
\* the connection while mapping_requested is None runs create_mapping itself,
\* however many other operations are inside setup() at that moment.
C13_SetupNotGuarded ==
    [][\A t \in 1..Len(tasks') :
          /\ (Starts(t) /\ es = None) => tasks'[t].pc = "client"
          /\ (Connects(t) /\ mapping_requested = None) => tasks'[t].pc = "idx_empty"]_vars

\* Two operations that started before the first setup had finished are both in
\* create_mapping: each has indexed the empty document and sent the mapping.
C13_Witness ==
    /\ Len(tasks) = 2
    /\ Initialising = {1, 2}
    /\ tasks[1].pc = "idx_mapping" /\ tasks[2].pc = "idx_mapping"
    /\ mapping_requested = None
    /\ Len(SelectSeq(docs, LAMBDA d : d = EmptyDoc)) = 2

\* The backend index calls among a coroutine's awaits, in order
IndexCalls(task) == SelectSeq(task.calls, LAMBDA c : c.op = "index")

IsPrefix(p, q) == Len(p) <= Len(q) /\ SubSeq(q, 1, Len(p)) = p

\* C14: the first store on a fresh manager issues three index calls, in order
\* the empty document, the mapping request and the measurement document; a store
\* started on the initialised manager issues the measurement document alone; and
\* a measurement document carries its record's endpoint and wall_ms and, as
\* timestamp, the clock as read in the step that issues it, after setup() has
\* returned.
C14_FirstStoreIssuesThreeIndexCalls ==
    /\ []((tasks # <<>> /\ tasks[1].kind = "store") =>
             LET issued == IndexCalls(tasks[1])
             IN  /\ Len(issued) <= 3
                 /\ IsPrefix(SubSeq(issued, 1, IF Len(issued) < 2 THEN Len(issued) ELSE 2),
                             <<IndexCall(EmptyDoc, None), IndexCall(mapping, "_mapping")>>)
                 /\ Len(issued) = 3 => IsMeasurement(issued[3].body) /\ issued[3].doc_type = None
                 /\ tasks[1].pc = "done" => Len(issued) = 3)
    /\ [][\A t \in 1..Len(tasks') :
             tasks'[t].kind = "store" =>
                /\ (Starts(t) /\ Initialised) =>
                      tasks'[t].calls =
                          <<IndexCall(MeasurementDoc(tasks'[t].data, now'), None)>>
                /\ \A c \in NewCalls(t) :
                      (c.op = "index" /\ IsMeasurement(c.body)) =>
                          /\ c.body.endpoint = tasks'[t].data.name
                          /\ c.body.wall_ms = tasks'[t].data.wall_ms
                          /\ c.body.timestamp = now']_vars
    /\ [](\A t \in StoreTasks :
             tasks[t].pc = "done" =>
                /\ Len(SelectSeq(tasks[t].calls,
                                  LAMBDA c : c.op = "index" /\ IsMeasurement(c.body))) = 1
                /\ IsMeasurement(InFlight(tasks[t])))

\* The first store was called at instant 0 and its setup ended at instant 1: it
\* issued the three calls and its document is stamped 1; the store awaited after
\* it issued its measurement document alone.
C14_Witness ==
    /\ Len(tasks) = 2
    /\ tasks[1].kind = "store" /\ tasks[1].pc = "done"
    /\ IndexCalls(tasks[1]) =
          <<IndexCall(EmptyDoc, None), IndexCall(mapping, "_mapping"),
            IndexCall(MeasurementDoc(tasks[1].data, 1), None)>>
    /\ tasks[2].kind = "store" /\ tasks[2].pc = "done"
    /\ tasks[2].calls = <<IndexCall(MeasurementDoc(tasks[2].data, 1), None)>>
    /\ docs = <<EmptyDoc, MeasurementDoc(tasks[1].data, 1), MeasurementDoc(tasks[2].data, 1)>>

----------------------------------------------------------------------------
(* Properties of the registration order, under SpecRoute *)

\* The registered routes that match the request in full, resp. in path only
FullMatches(req) ==
    {i \in 1..Len(Routes) : matches(Routes[i], req.method, req.path) = "FULL"}

PartialMatches(req) ==
    {i \in 1..Len(Routes) : matches(Routes[i], req.method, req.path) = "PARTIAL"}

\* The identifier a registered route stands for: module and function name of
\* its handler, or nothing when it has no handler of its own (a mount).
IdentifierOf(i) ==
    IF Routes[i].kind = "Route"
    THEN <<Routes[i].module, Routes[i].name>>
    ELSE <<>>

\* C15: resolution is first-match-wins in registration order: the identifier of
\* a request is that of the earliest registered route among those matching it in
\* full, and a route matching in path only is passed over.
C15_FirstMatchWins ==
    \A r \in Requests :
        LET full == FullMatches(requests[r])
        IN  /\ \A i \in full :
                  (\A j \in full : i <= j) => requests[r].name = IdentifierOf(i)
            /\ requests[r].name # <<>> =>
                  \E i \in full : requests[r].name = IdentifierOf(i)

\* GET /healthcheck matches both the health check and GET /{index_name} in full
\* and resolved to the earlier; POST /healthcheck matches the health check in
\* path only and resolved to the later POST /{index_name}.
C15_Witness ==
    /\ Len(requests) = 2
    /\ requests[1].method = "GET" /\ requests[1].path = <<"healthcheck">>
    /\ Cardinality(FullMatches(requests[1])) = 2
    /\ requests[1].name = <<"quepid_es_proxy.main", "root">>
    /\ requests[2].method = "POST" /\ requests[2].path = <<"healthcheck">>
    /\ \E i \in PartialMatches(requests[2]) : \A j \in FullMatches(requests[2]) : i < j
    /\ requests[2].name = <<"quepid_es_proxy.main", "search_proxy">>

\* C16: resolution never raises and falls back to the empty identifier: every
\* request received is handed to the downstream handler, and one that no route
\* matches in full, or whose first full match is a mount (no handler of its own
\* to name it), has the empty identifier and is not measured.
C16_UnresolvedIsEmptyAndUnmeasured ==
    \A r \in Requests :
        LET full == FullMatches(requests[r])
        IN  /\ requests[r].pc = "call_next"
            /\ (\/ full = {}
                \/ \E i \in full : Routes[i].kind = "Mount" /\ \A j \in full : i <= j) =>
                  /\ requests[r].name = <<>>
                  /\ requests[r].ctx = "nullcontext"
                  /\ requests[r].name \notin measure_routes

\* GET / matches no route and GET /metrics/ is taken by the mount: both wait on
\* the downstream handler with the empty identifier, unmeasured.
C16_Witness ==
    /\ Len(requests) = 2
    /\ requests[1].method = "GET" /\ requests[1].path = <<"">>
    /\ FullMatches(requests[1]) = {}
    /\ requests[2].method = "GET" /\ requests[2].path = <<"metrics", "">>
    /\ \E i \in FullMatches(requests[2]) : Routes[i].kind = "Mount"
    /\ \A r \in Requests :
          /\ requests[r].name = <<>>
          /\ requests[r].ctx = "nullcontext"
          /\ requests[r].pc = "call_next"

----------------------------------------------------------------------------
(* The backlog of store tasks, under Spec *)

\* The store tasks that have been scheduled and have not ended
Pending == {t \in StoreTasks : tasks[t].pc \notin Finished}

\* The measured request r leaves the middleware in this step.
MeasuredRequestEnds(r) ==
    /\ Measured(r)
    /\ requests[r].pc = "call_next"
    /\ requests'[r].pc # "call_next"

\* C17: the implementation puts no bound on the store tasks that are scheduled
\* and unfinished: a measured request that ends adds one task whatever the
\* number already pending, no step drops or replaces a task, and while no store
\* task has ended there are as many pending as measured requests have ended.
C17_PendingStoresUnbounded ==
    /\ [][\A r \in Requests :
             MeasuredRequestEnds(r) =>
                /\ Len(tasks') = Len(tasks) + 1
                /\ tasks'[Len(tasks')].kind = "store"
                /\ tasks'[Len(tasks')].req = r
                /\ tasks'[Len(tasks')].pc = "scheduled"]_vars
    /\ [][/\ Len(tasks') >= Len(tasks)
          /\ \A t \in Tasks :
                /\ tasks'[t].kind = tasks[t].kind
                /\ tasks'[t].req = tasks[t].req
                /\ tasks'[t].data = tasks[t].data
                /\ tasks[t].pc \in Finished => tasks'[t] = tasks[t]]_vars
    /\ []((\A t \in StoreTasks : tasks[t].pc \notin Finished) =>
             Cardinality(Pending) = Cardinality({r \in Requests : Measured(r) /\ Done(r)}))

\* The backend has answered nothing: every request of the run was measured and
\* has ended, and the store task of each is pending, the first one waiting for
\* the connection.
C17_Witness ==
    /\ Len(requests) = MaxRequests
    /\ \A r \in Requests : Measured(r) /\ Done(r)
    /\ Cardinality(Pending) = MaxRequests
    /\ tasks[1].pc = "client"
    /\ es = None /\ docs = <<>>

----------------------------------------------------------------------------
(* Order of setup and use under overlapping operations, under SpecManager *)

\* The calls that use the index: a measurement document or the aggregation query
IsUseCall(c) ==
    \/ c.op = "index" /\ IsMeasurement(c.body)
    \/ c.op = "search"

\* create_mapping of task t has returned: its mapping request is behind it.
MappingReturned(t) ==
    \E k \in 1..(Len(tasks[t].calls) - 1) :
        tasks[t].calls[k] = IndexCall(mapping, "_mapping")

\* C18: under every interleaving of overlapping stores and retrieves, when a
\* measurement document has been sent or written or an aggregation query sent,
\* the connection has been obtained and some create_mapping has returned; the
\* step that sends it either finds mapping_requested set or is the return of
\* the sender's own create_mapping.
C18_SetupBeforeUse ==
    /\ [](\A t \in Tasks :
             (\E k \in 1..Len(tasks[t].calls) : IsUseCall(tasks[t].calls[k])) =>
                /\ es # None
                /\ \E u \in Tasks : MappingReturned(u))
    /\ []((\E i \in 1..Len(docs) : IsMeasurement(docs[i])) =>
             /\ es # None
             /\ \E u \in Tasks : MappingReturned(u))
    /\ [][\A t \in 1..Len(tasks') :
             (\E c \in NewCalls(t) : IsUseCall(c)) =>
                /\ es' # None
                /\ \/ mapping_requested # None
                   \/ t <= Len(tasks) /\ tasks[t].pc = "idx_mapping"]_vars

\* A store and a retrieve overlapped: the store ran setup alone and has written
\* its document, the retrieve started while create_mapping was under way, ran
\* its own, and has been answered.
C18_Witness ==
    /\ Len(tasks) = 2
    /\ tasks[1].kind = "store" /\ tasks[1].pc = "done" /\ MappingReturned(1)
    /\ tasks[2].kind = "retrieve" /\ tasks[2].pc = "done" /\ MappingReturned(2)
    /\ tasks[2].calls[1] = IndexCall(EmptyDoc, None)
    /\ \E i \in 1..Len(docs) : IsMeasurement(docs[i])

\* create_mapping of task t raises, resp. returns, in this step.
MappingRaises(t) ==
    /\ tasks[t].pc \in {"idx_empty", "idx_mapping"}
    /\ tasks'[t].pc = "failed"

MappingReturns(t) ==
    /\ tasks[t].pc = "idx_mapping"
    /\ tasks'[t].pc \notin {"idx_mapping", "failed"}

\* create_mapping of task t returns None in this step.
MappingReturnsNone(t) == MappingReturns(t) /\ mapping_requested' = None

\* The awaits task t has made after this step include no measurement document
\* and no query.
NothingSentAfter(t) ==
    \A k \in 1..Len(tasks'[t].calls) : ~IsUseCall(tasks'[t].calls[k])

\* The awaits task t has made after this step include no measurement document.
NoDocumentAfter(t) ==
    \A k \in 1..Len(tasks'[t].calls) :
        ~(tasks'[t].calls[k].op = "index" /\ IsMeasurement(tasks'[t].calls[k].body))

\* An operation that starts, or is handed the connection, while
\* mapping_requested is None runs create_mapping.
RunsMappingAgain ==
    \A t \in 1..Len(tasks') :
        ((Starts(t) \/ Connects(t)) /\ es' # None /\ mapping_requested = None) =>
            /\ tasks'[t].pc = "idx_empty"
            /\ IndexCall(EmptyDoc, None) \in NewCalls(t)

\* mapping_requested goes from None to a value only when a create_mapping returns.
SetOnlyByReturn ==
    (mapping_requested = None /\ mapping_requested' # None) =>
        \E t \in Tasks : MappingReturns(t)

\* C19 as stated: when create_mapping raises or returns None, mapping_requested
\* is not set, the operation sends no measurement document, and the next
\* operation runs create_mapping again; mapping_requested becomes non-None only
\* after a create_mapping has returned a value.
C19_AsStated ==
    /\ [][\A t \in Tasks :
             (MappingRaises(t) \/ MappingReturnsNone(t)) =>
                /\ mapping_requested = None => mapping_requested' = None
                /\ NoDocumentAfter(t)]_vars
    /\ [][RunsMappingAgain]_vars
    /\ [][SetOnlyByReturn]_vars

\* C19 as amended: a failed setup is not latched. When create_mapping raises,
\* the step assigns nothing to mapping_requested and the operation ends without
\* a measurement document or a query sent; when it returns None,
\* mapping_requested is None afterwards but setup() returns normally and the
\* operation goes on to send its document or query; in both cases an operation
\* that then finds mapping_requested None runs create_mapping again, and
\* mapping_requested becomes non-None only when a create_mapping returns.
C19_FailedSetupNotLatched ==
    /\ [][\A t \in Tasks :
             /\ MappingRaises(t) =>
                   /\ mapping_requested' = mapping_requested
                   /\ NothingSentAfter(t)
             /\ MappingReturnsNone(t) =>
                   \E c \in NewCalls(t) : IsUseCall(c)]_vars
    /\ [](\A t \in Tasks :
             (tasks[t].pc = "failed" /\ IsSetupCall(InFlight(tasks[t]))) =>
                \A k \in 1..Len(tasks[t].calls) : ~IsUseCall(tasks[t].calls[k]))
    /\ [][RunsMappingAgain]_vars
    /\ [][SetOnlyByReturn]_vars

\* The mapping request of the first store was answered None: the store wrote
\* its document all the same and left mapping_requested None. The next store
\* ran create_mapping again, its mapping request was rejected, and it ended
\* without a document.
C19_Witness ==
    /\ Len(tasks) = 2
    /\ tasks[1].kind = "store" /\ tasks[1].pc = "done" /\ MappingReturned(1)
    /\ tasks[2].kind = "store" /\ tasks[2].pc = "failed"
    /\ tasks[2].calls = <<IndexCall(EmptyDoc, None), IndexCall(mapping, "_mapping")>>
    /\ mapping_requested = None
    /\ SelectSeq(docs, IsMeasurement) = <<InFlight(tasks[1])>>

----------------------------------------------------------------------------
(* Termination of the store tasks, under SpecLive *)

\* store has been invoked a t-th time on the manager.
StoreInvoked(t) == t <= Len(tasks) /\ tasks[t].kind = "store"

\* The task of that invocation has ended and its document is persisted.
StoreWritten(t) ==
    /\ t <= Len(tasks)
    /\ tasks[t].pc = "done"
    /\ IsMeasurement(InFlight(tasks[t]))
    /\ \E i \in 1..Len(docs) : docs[i] = InFlight(tasks[t])

\* C20: when the event loop runs every ready task and the backend answers every
\* call, every store invocation is eventually followed by the write of its
\* measurement document, also when tasks race on the first-use setup.
\* Stated as: an invocation and its write, once there, stay (no step undoes
\* them), and again and again every invocation made so far has been written;
\* together these say that each invocation leads to its write.
C20_EveryStoreEventuallyWrites ==
    /\ [][\A t \in 1..Len(tasks) :
             /\ StoreInvoked(t) => StoreInvoked(t)'
             /\ StoreWritten(t) => StoreWritten(t)']_vars
    /\ []<>(\A t \in 1..Len(tasks) : StoreInvoked(t) => StoreWritten(t))

\* Two store tasks raced on the first-use setup, each ran create_mapping, and
\* both have written their documents.
C20_Witness ==
    /\ Len(tasks) = 2
    /\ StoreInvoked(1) /\ StoreInvoked(2)
    /\ Len(IndexCalls(tasks[1])) = 3 /\ Len(IndexCalls(tasks[2])) = 3
    /\ StoreWritten(1) /\ StoreWritten(2)
    /\ Len(SelectSeq(docs, IsMeasurement)) = 2

====
